---- MODULE Spec2Model ----
(***************************************************************************)
(* Model of build_snli_hard_challenge.py: the tokenizer and the three      *)
(* heuristics as operators on strings, and main() as a state machine       *)
(* (seed, load, filter, collect by label, per-label shuffle and            *)
(* truncation, global shuffle, write).                                     *)
(***************************************************************************)
EXTENDS Integers, Sequences, FiniteSets, TLC

(***************************************************************************)
(* Bounds of the model.                                                    *)
(***************************************************************************)
\* longest dataset (number of rows) a run of the pipeline reads
MaxDataset == 3
\* largest --max_per_label explored (the smallest is -1)
MaxPerLabel == 2
\* number of pieces a unit-test text is assembled from
MaxPieces == 2
\* longest dataset of the re-run specification
MaxRerun == 2

(***************************************************************************)
(* Characters.  A text is a TLA+ string; Len, SubSeq and \o act on it.     *)
(***************************************************************************)
UpperChars == "ABCDEFGHIJKLMNOPQRSTUVWXYZ"
LowerChars == "abcdefghijklmnopqrstuvwxyz"
DigitChars == "0123456789"

CharAt(s, i) == SubSeq(s, i, i)

CharsOf(s) == {CharAt(s, i) : i \in 1..Len(s)}

\* the character class [a-z0-9] of the regular expression
AlnumClass == CharsOf(LowerChars) \cup CharsOf(DigitChars)

\* characters str.split() treats as separators
Whitespace == {" ", "\t", "\n", "\r"}

UpperClass == CharsOf(UpperChars)

\* the lower-case letter of every upper-case one
LowerMap ==
    [c \in UpperClass |->
        CharAt(LowerChars, CHOOSE i \in 1..Len(UpperChars) : CharAt(UpperChars, i) = c)]

\* str.lower() on one character
LowerChar(c) == IF c \in UpperClass THEN LowerMap[c] ELSE c

\* the characters i..j of s, each lower-cased (halving keeps the nesting shallow)
RECURSIVE LowerRange(_, _, _)
LowerRange(s, i, j) ==
    IF i > j THEN ""
    ELSE IF i = j THEN LowerChar(CharAt(s, i))
    ELSE LET m == (i + j) \div 2
         IN  LowerRange(s, i, m) \o LowerRange(s, m + 1, j)

\* text.lower()
lower(text) == LowerRange(text, 1, Len(text))

\* What re.sub(r"[^a-z0-9]+", " ", text) leaves of the character at i: a
\* character of the class stays, a maximal run of others becomes one space
\* (written where the run begins)
SubChar(s, i) ==
    IF CharAt(s, i) \in AlnumClass THEN CharAt(s, i)
    ELSE IF i = 1 \/ CharAt(s, i - 1) \in AlnumClass THEN " "
    ELSE ""

RECURSIVE SubRange(_, _, _)
SubRange(s, i, j) ==
    IF i > j THEN ""
    ELSE IF i = j THEN SubChar(s, i)
    ELSE LET m == (i + j) \div 2
         IN  SubRange(s, i, m) \o SubRange(s, m + 1, j)

re_sub(text) == SubRange(text, 1, Len(text))

\* the k-th smallest member of a set of positions
Kth(S, k) == CHOOSE i \in S : Cardinality({j \in S : j < i}) = k - 1

\* text.split(): the fragments between runs of whitespace, in order; a fragment
\* begins at a character that is not whitespace and follows whitespace or
\* nothing, and ends at one that whitespace or nothing follows
split(text) ==
    LET n == Len(text)
        solid == {i \in 1..n : CharAt(text, i) \notin Whitespace}
        begins == {i \in solid : i = 1 \/ (i - 1) \notin solid}
        ends == {i \in solid : i = n \/ (i + 1) \notin solid}
    IN  [k \in 1..Cardinality(begins) |-> SubSeq(text, Kth(begins, k), Kth(ends, k))]

\* mutant: the text is not lower-cased first
simple_tokenize_no_lower(text) ==
    SelectSeq(split(re_sub(text)), LAMBDA t : t # "")

simple_tokenize(text) ==
    LET t1 == lower(text)
        t2 == re_sub(t1)
    IN  SelectSeq(split(t2), LAMBDA t : t # "")

NEGATION_WORDS ==
    {"not", "no", "never", "none", "nobody", "nothing", "nowhere",
     "neither", "nor", "n't", "cant", "can't", "dont", "don't"}

\* mutant: the words are cut at whitespace only, punctuation kept
has_negation_raw_split(text) ==
    LET toks == split(lower(text))
    IN  \E i \in 1..Len(toks) : toks[i] \in NEGATION_WORDS

has_negation(text) ==
    LET toks == simple_tokenize(text)
    IN  \E i \in 1..Len(toks) : toks[i] \in NEGATION_WORDS

\* set(tokens)
SetOf(toks) == {toks[i] : i \in 1..Len(toks)}

RECURSIVE Gcd(_, _)
Gcd(a, b) == IF b = 0 THEN a ELSE Gcd(b, a % b)

\* the float n / d, kept as the fraction in lowest terms
Div(n, d) == <<n \div Gcd(n, d), d \div Gcd(n, d)>>

\* the float 0.0
Zero == <<0, 1>>

\* x >= y on two such fractions
Geq(x, y) == x[1] * y[2] >= y[1] * x[2]

\* mutant: the shared tokens as a share of the hypothesis, not of the union
lexical_overlap_by_hyp(prem, hyp) ==
    LET prem_tokens == SetOf(simple_tokenize(prem))
        hyp_tokens == SetOf(simple_tokenize(hyp))
    IN  IF prem_tokens = {} \/ hyp_tokens = {}
        THEN Zero
        ELSE Div(Cardinality(prem_tokens \cap hyp_tokens), Cardinality(hyp_tokens))

lexical_overlap(prem, hyp) ==
    LET prem_tokens == SetOf(simple_tokenize(prem))
        hyp_tokens == SetOf(simple_tokenize(hyp))
    IN  IF prem_tokens = {} \/ hyp_tokens = {}
        THEN Zero
        ELSE Div(Cardinality(prem_tokens \cap hyp_tokens),
                 Cardinality(prem_tokens \cup hyp_tokens))

\* hyp_len <= 10
MinHypLen == 10
\* overlap >= 0.2
OverlapLimit == <<1, 5>>

\* mutant: an overlap of exactly 0.2 is let through (> instead of >=)
is_hard_example_gt(ex) ==
    LET prem == ex.premise
        hyp == ex.hypothesis
    IN  IF has_negation(hyp) THEN FALSE
        ELSE IF Len(simple_tokenize(hyp)) <= MinHypLen THEN FALSE
        ELSE IF ~Geq(OverlapLimit, lexical_overlap(prem, hyp)) THEN FALSE
        ELSE TRUE

is_hard_example(ex) ==
    LET prem == ex.premise
        hyp == ex.hypothesis
    IN  IF has_negation(hyp) THEN FALSE
        ELSE IF Len(simple_tokenize(hyp)) <= MinHypLen THEN FALSE
        ELSE IF Geq(lexical_overlap(prem, hyp), OverlapLimit) THEN FALSE
        ELSE TRUE

(***************************************************************************)
(* The pseudo-random source of the random module, as a small deterministic *)
(* generator: a state, a seeding function and a draw below n.              *)
(***************************************************************************)
\* random.seed(args.seed)
SeedRng(s) == (7 * s + 1) % 32

NextRng(r) == (5 * r + 3) % 32

\* the draw j in 0..n-1 that shuffle makes, and the state after it
RandBelow(r, n) == [val |-> (NextRng(r) \div 4) % n, rng |-> NextRng(r)]

Swap(x, i, j) == [x EXCEPT ![i] = x[j], ![j] = x[i]]

\* random.shuffle(x): for i from the last index down to the second,
\* exchange x[i] with x[j], j drawn below i (indexes here start at 1)
RECURSIVE ShuffleFrom(_, _, _)
ShuffleFrom(x, i, r) ==
    IF i < 2 THEN [list |-> x, rng |-> r]
    ELSE LET d == RandBelow(r, i)
         IN  ShuffleFrom(Swap(x, i, d.val + 1), i - 1, d.rng)

shuffle(x, r) == ShuffleFrom(x, Len(x), r)

Min(a, b) == IF a <= b THEN a ELSE b
Max(a, b) == IF a >= b THEN a ELSE b

\* mutant: one row more than asked for
SliceOneMore(exs, m) == SubSeq(exs, 1, Min(m + 1, Len(exs)))

\* exs[: m]: Python's slice, a negative m counting from the end
Slice(exs, m) ==
    IF m >= 0 THEN SubSeq(exs, 1, Min(m, Len(exs)))
    ELSE SubSeq(exs, 1, Max(0, Len(exs) + m))

(***************************************************************************)
(* Input rows.  A row is a record premise, hypothesis, label; label -1 is  *)
(* SNLI's mark of a row without gold label.                                *)
(***************************************************************************)
Row(p, h, l) == [premise |-> p, hypothesis |-> h, label |-> l]

PremA == "a man runs"
HypA == "a man is not running very quickly today outside"
PremB == "a dog sleeps"
HypB == "a completely unrelated group of people are celebrating a festival downtown"
PremD == ""
HypD == "Two b c d e f g h i j k."

Rows ==
    {Row(PremB, HypB, 0), Row(PremD, HypD, 0), Row(PremD, HypD, 1),
     Row(PremD, HypD, 2), Row(PremD, HypD, -1), Row(PremA, HypA, 1)}

RerunRows ==
    {Row(PremB, HypB, 0), Row(PremD, HypD, 0), Row(PremA, HypA, 1)}

\* values of --seed explored
Seeds == {1, 42}

SeqsUpTo(S, n) == UNION {[1..k -> S] : k \in 0..n}

\* a line the file holds before the run, left by something else
StaleLine == <<<<"text", "stale">>>>

(***************************************************************************)
(* State of one run of main().                                             *)
(***************************************************************************)
VARIABLES
    pc,             \* where main() is
    max_per_label,  \* args.max_per_label
    seed,           \* args.seed
    rng,            \* state of the random module's generator
    dataset,        \* dataset["train"]: the rows the loader supplies
    train,          \* the filtered split: positions of dataset kept, in order
    idx,            \* number of rows of train the collect loop has consumed
    evaluated,      \* positions is_hard_example has been called on
    collected,      \* the rows of each group when the collect loop ended
    by_label,       \* label -> list of rows (as positions of dataset)
    lab,            \* next key of by_label.items() in the sampling loop
    selected,       \* list of rows (as positions of dataset)
    file,           \* lines of the file at args.output
    opened,         \* the output path has been opened by this run
    written,        \* number of rows of selected the write loop has consumed
    prev,           \* what the previous run started from and selected, if any
    uprem, uhyp,    \* arguments of a direct call of one of the functions
    ures            \* the function called and what it returned

vars == <<pc, max_per_label, seed, rng, dataset, train, idx, evaluated, collected, by_label,
          lab, selected, file, opened, written, prev, uprem, uhyp, ures>>

unitVars == <<uprem, uhyp, ures>>
runVars == <<pc, max_per_label, seed, rng, dataset, train, idx, evaluated,
             collected, by_label, lab, selected, file, opened, written, prev>>

NoRng == 0 - 1

InitRun(datasets, files) ==
    /\ pc = "seed"
    /\ max_per_label \in -1..MaxPerLabel
    /\ seed \in Seeds
    /\ rng = NoRng
    /\ dataset \in datasets
    /\ train = <<>>
    /\ idx = 0
    /\ evaluated = {}
    /\ collected = <<>>
    /\ by_label = [l \in {} |-> <<>>]
    /\ lab = 0
    /\ selected = <<>>
    /\ file \in files
    /\ opened = FALSE
    /\ written = 0
    /\ prev = <<>>

\* no function has been called
NoCall == [fn |-> "none", val |-> FALSE]

InitUnitIdle ==
    /\ uprem = ""
    /\ uhyp = ""
    /\ ures = NoCall

Init == InitRun(SeqsUpTo(Rows, MaxDataset), {<<StaleLine>>}) /\ InitUnitIdle

\* mutant: the generator is left as the system seeded it, which differs from
\* run to run
SeedFromSystem ==
    /\ pc = "seed"
    /\ rng' = (IF prev = <<>> THEN 1 ELSE 2)
    /\ pc' = "load"
    /\ UNCHANGED <<max_per_label, seed, dataset, train, idx, evaluated, collected,
                   by_label, lab, selected, file, opened, written, prev, unitVars>>

\* line 83
Seed ==
    /\ pc = "seed"
    /\ rng' = SeedRng(seed)
    /\ pc' = "load"
    /\ UNCHANGED <<max_per_label, seed, dataset, train, idx, evaluated, collected, by_label,
                   lab, selected, file, opened, written, prev, unitVars>>

\* mutant: the output file is created before the dataset is loaded
LoadAfterOpen ==
    /\ pc = "load"
    /\ file' = <<>>
    /\ opened' = TRUE
    /\ pc' = "filter"
    /\ UNCHANGED <<max_per_label, seed, rng, dataset, train, idx, evaluated,
                   collected, by_label, lab, selected, written, prev, unitVars>>

\* lines 85-86
Load ==
    /\ pc = "load"
    /\ pc' = "filter"
    /\ UNCHANGED <<max_per_label, seed, rng, dataset, train, idx, evaluated,
                   collected, by_label, lab, selected, file, opened, written, prev, unitVars>>

RECURSIVE FilterFrom(_, _)
FilterFrom(ds, i) ==
    IF i > Len(ds) THEN <<>>
    ELSE (IF ds[i].label # -1 THEN <<i>> ELSE <<>>) \o FilterFrom(ds, i + 1)

\* mutant: no row is removed
filter_keep_all(ds) == [i \in 1..Len(ds) |-> i]

\* dataset["train"].filter(lambda ex: ex["label"] != -1)
filter(ds) == FilterFrom(ds, 1)

\* lines 88-94
Filter ==
    /\ pc = "filter"
    /\ train' = filter(dataset)
    /\ by_label' = [l \in 0..2 |-> <<>>]
    /\ idx' = 0
    /\ pc' = "collect"
    /\ UNCHANGED <<max_per_label, seed, rng, dataset, evaluated, collected, lab, selected,
                   file, opened, written, prev, unitVars>>

\* lines 96-100, one row of train
Collect ==
    /\ pc = "collect"
    /\ idx < Len(train)
    /\ LET pos == train[idx + 1]
           ex == dataset[pos]
       IN  /\ evaluated' = evaluated \cup {pos}
           /\ by_label' =
                IF is_hard_example(ex) /\ ex.label \in DOMAIN by_label
                THEN [by_label EXCEPT ![ex.label] = Append(@, pos)]
                ELSE by_label
    /\ idx' = idx + 1
    /\ UNCHANGED <<pc, max_per_label, seed, rng, dataset, train, collected, lab,
                   selected, file, opened, written, prev, unitVars>>

\* the rows a list of positions stands for
Vals(ps) == [k \in 1..Len(ps) |-> dataset[ps[k]]]

\* lines 102-106, the end of the collect loop
EndCollect ==
    /\ pc = "collect"
    /\ idx = Len(train)
    /\ collected' = [l \in DOMAIN by_label |-> Vals(by_label[l])]
    /\ selected' = <<>>
    /\ lab' = 0
    /\ pc' = "sample"
    /\ UNCHANGED <<max_per_label, seed, rng, dataset, train, idx, evaluated,
                   by_label, file, opened, written, prev, unitVars>>

\* lines 107-111, one key of by_label.items()
Sample ==
    /\ pc = "sample"
    /\ lab \in DOMAIN by_label
    /\ LET sh == shuffle(by_label[lab], rng)
           keep == Slice(sh.list, max_per_label)
       IN  /\ by_label' = [by_label EXCEPT ![lab] = sh.list]
           /\ rng' = sh.rng
           /\ selected' = selected \o keep
    /\ lab' = lab + 1
    /\ UNCHANGED <<pc, max_per_label, seed, dataset, train, idx, evaluated,
                   collected, file, opened, written, prev, unitVars>>

\* lines 113-114
ShuffleAll ==
    /\ pc = "sample"
    /\ lab \notin DOMAIN by_label
    /\ LET sh == shuffle(selected, rng)
       IN  /\ selected' = sh.list
           /\ rng' = sh.rng
    /\ pc' = "open"
    /\ UNCHANGED <<max_per_label, seed, dataset, train, idx, evaluated, collected, by_label,
                   lab, file, opened, written, prev, unitVars>>

\* mutant: mode "a", which keeps what the file holds
OpenAppend ==
    /\ pc = "open"
    /\ opened' = TRUE
    /\ written' = 0
    /\ pc' = "write"
    /\ UNCHANGED <<max_per_label, seed, rng, dataset, train, idx, evaluated,
                   collected, by_label, lab, selected, file, prev, unitVars>>

\* line 117: mode "w" creates the file or cuts it to length zero
Open ==
    /\ pc = "open"
    /\ file' = <<>>
    /\ opened' = TRUE
    /\ written' = 0
    /\ pc' = "write"
    /\ UNCHANGED <<max_per_label, seed, rng, dataset, train, idx, evaluated,
                   collected, by_label, lab, selected, prev, unitVars>>

\* json.dumps(out): the members of the object, in the order the dict holds them
json_dumps(ex) ==
    <<<<"premise", ex.premise>>, <<"hypothesis", ex.hypothesis>>,
      <<"label", ex.label>>>>

\* lines 118-125, one row of selected
Write ==
    /\ pc = "write"
    /\ written < Len(selected)
    /\ file' = Append(file, json_dumps(dataset[selected[written + 1]]))
    /\ written' = written + 1
    /\ UNCHANGED <<pc, max_per_label, seed, rng, dataset, train, idx, evaluated,
                   collected, by_label, lab, selected, opened, prev, unitVars>>

\* the end of the with block, and line 127
Close ==
    /\ pc = "write"
    /\ written = Len(selected)
    /\ pc' = "done"
    /\ UNCHANGED <<max_per_label, seed, rng, dataset, train, idx, evaluated,
                   collected, by_label, lab, selected, file, opened, written, prev, unitVars>>

\* An exception of the loader, the filter, the loops or open() is not caught:
\* it ends main() where it is raised.
Raise ==
    /\ pc \in {"load", "filter", "collect", "sample", "open"}
    /\ pc' = "failed"
    /\ UNCHANGED <<max_per_label, seed, rng, dataset, train, idx, evaluated,
                   collected, by_label, lab, selected, file, opened, written, prev, unitVars>>

\* An exception of f.write: the with block closes the file, holding the lines
\* written so far
WriteFail ==
    /\ pc = "write"
    /\ written < Len(selected)
    /\ pc' = "failed"
    /\ UNCHANGED <<max_per_label, seed, rng, dataset, train, idx, evaluated,
                   collected, by_label, lab, selected, file, opened, written, prev, unitVars>>

Next ==
    \/ Seed
    \/ Load
    \/ Filter
    \/ Collect
    \/ EndCollect
    \/ Sample
    \/ ShuffleAll
    \/ Open
    \/ Write
    \/ Close
    \/ Raise
    \/ WriteFail

Spec == Init /\ [][Next]_vars

(***************************************************************************)
(* The same command line run a second time, after a completed run: the     *)
(* output file is the one the first run wrote, the loader may supply other *)
(* rows.  prev keeps what the first run started from and selected.         *)
(***************************************************************************)
ReRun ==
    /\ pc = "done"
    /\ prev = <<>>
    /\ prev' = <<[seed |-> seed, max_per_label |-> max_per_label,
                 groups |-> collected, selected |-> Vals(selected)]>>
    /\ dataset' \in SeqsUpTo(RerunRows, MaxRerun)
    /\ pc' = "seed"
    /\ rng' = NoRng
    /\ train' = <<>>
    /\ idx' = 0
    /\ evaluated' = {}
    /\ collected' = <<>>
    /\ by_label' = [l \in {} |-> <<>>]
    /\ lab' = 0
    /\ selected' = <<>>
    /\ opened' = FALSE
    /\ written' = 0
    /\ UNCHANGED <<max_per_label, seed, file, unitVars>>

InitRerun == InitRun(SeqsUpTo(RerunRows, MaxRerun), {<<>>}) /\ InitUnitIdle

NextRerun == Next \/ ReRun

SpecRerun == InitRerun /\ [][NextRerun]_vars

(***************************************************************************)
(* Direct calls of the four functions on texts assembled from pieces.      *)
(***************************************************************************)
Pieces == {"no", "Not", "n't", "can't", "don't", "dont", "b", "x7", " ", "-"}

RECURSIVE PieceTexts(_)
PieceTexts(n) ==
    IF n = 0 THEN {""}
    ELSE PieceTexts(n - 1) \cup {t \o p : t \in PieceTexts(n - 1), p \in Pieces}

\* ten tokens, nine of them distinct
LongPrefix == "b c d e f g h i j b "

UnitHyps == {pre \o t : pre \in {"", LongPrefix}, t \in PieceTexts(MaxPieces)}

UnitPrems == {"", "b", "b c", "B, c d", "No x7"}

InitUnit ==
    /\ pc = "unit"
    /\ max_per_label = 0
    /\ seed = 0
    /\ rng = NoRng
    /\ dataset = <<>>
    /\ train = <<>>
    /\ idx = 0
    /\ evaluated = {}
    /\ collected = <<>>
    /\ by_label = [l \in {} |-> <<>>]
    /\ lab = 0
    /\ selected = <<>>
    /\ file = <<>>
    /\ opened = FALSE
    /\ written = 0
    /\ prev = <<>>
    /\ uprem \in UnitPrems
    /\ uhyp \in UnitHyps
    /\ ures = NoCall

CallTokenize ==
    /\ pc = "unit" /\ ures.fn = "none"
    /\ ures' = [fn |-> "simple_tokenize", val |-> simple_tokenize(uhyp)]
    /\ UNCHANGED <<runVars, uprem, uhyp>>

CallNegation ==
    /\ pc = "unit" /\ ures.fn = "none"
    /\ ures' = [fn |-> "has_negation", val |-> has_negation(uhyp)]
    /\ UNCHANGED <<runVars, uprem, uhyp>>

CallOverlap ==
    /\ pc = "unit" /\ ures.fn = "none"
    /\ ures' = [fn |-> "lexical_overlap", val |-> lexical_overlap(uprem, uhyp)]
    /\ UNCHANGED <<runVars, uprem, uhyp>>

CallHard ==
    /\ pc = "unit" /\ ures.fn = "none"
    /\ ures' = [fn |-> "is_hard_example",
                val |-> is_hard_example(Row(uprem, uhyp, 0))]
    /\ UNCHANGED <<runVars, uprem, uhyp>>

NextUnit == CallTokenize \/ CallNegation \/ CallOverlap \/ CallHard

SpecUnit == InitUnit /\ [][NextUnit]_vars

(***************************************************************************)
(* Properties.                                                             *)
(***************************************************************************)
\* the three predicates of the hardness policy, on the texts of a call
NoNegationToken(h) ==
    \A i \in 1..Len(simple_tokenize(h)) : simple_tokenize(h)[i] \notin NEGATION_WORDS

MoreThanTenTokens(h) == Len(simple_tokenize(h)) > 10

OverlapBelowFifth(p, h) == 5 * lexical_overlap(p, h)[1] < lexical_overlap(p, h)[2]

\* C1: is_hard_example returns true exactly when the hypothesis has no
\* negation token, has more than 10 tokens (duplicates counted) and its
\* overlap with the premise is below 0.2; in the seven other combinations of
\* the three predicates it returns false.
C1_HardIffAllThree ==
    ures.fn = "is_hard_example" =>
        ures.val = (/\ NoNegationToken(uhyp)
                    /\ MoreThanTenTokens(uhyp)
                    /\ OverlapBelowFifth(uprem, uhyp))

\* an accepted call whose hypothesis repeats a token (11 tokens, 10 distinct)
C1_Witness ==
    /\ ures.fn = "is_hard_example"
    /\ ures.val = TRUE
    /\ Cardinality(SetOf(simple_tokenize(uhyp))) < Len(simple_tokenize(uhyp))
    /\ lexical_overlap(uprem, uhyp) # Zero

\* C6: with A and B the sets of distinct tokens of the two texts,
\* lexical_overlap is 0 when A or B is empty and |A /\ B| / |A \/ B| otherwise;
\* it lies in [0, 1] and does not depend on the order of its arguments.
C6_OverlapIsJaccard ==
    ures.fn = "lexical_overlap" =>
        LET A == SetOf(simple_tokenize(uprem))
            B == SetOf(simple_tokenize(uhyp))
            v == ures.val
        IN  /\ (A = {} \/ B = {}) => v = Zero
            /\ (A # {} /\ B # {}) =>
                   v[1] * Cardinality(A \cup B) = v[2] * Cardinality(A \cap B)
            /\ v[2] > 0 /\ 0 <= v[1] /\ v[1] <= v[2]
            /\ v = lexical_overlap(uhyp, uprem)

\* a call on texts of different sizes that share some tokens, not all
C6_Witness ==
    /\ ures.fn = "lexical_overlap"
    /\ ures.val \notin {Zero, <<1, 1>>}
    /\ Cardinality(SetOf(simple_tokenize(uprem)))
         # Cardinality(SetOf(simple_tokenize(uhyp)))

\* the maximal runs of characters of [a-z0-9] of s, read from left to right
RECURSIVE RunsFrom(_, _, _)
RunsFrom(s, i, cur) ==
    IF i > Len(s) THEN (IF cur = "" THEN <<>> ELSE <<cur>>)
    ELSE IF CharAt(s, i) \in AlnumClass
         THEN RunsFrom(s, i + 1, cur \o CharAt(s, i))
         ELSE (IF cur = "" THEN <<>> ELSE <<cur>>) \o RunsFrom(s, i + 1, "")

\* C7: every token simple_tokenize returns is a non-empty string of
\* characters of [a-z0-9]; the tokens are the maximal runs of such characters
\* of the lower-cased text, in order; a text without such a character gives
\* the empty sequence.
C7_TokensAreMaximalRuns ==
    ures.fn = "simple_tokenize" =>
        /\ \A k \in 1..Len(ures.val) :
              /\ ures.val[k] # ""
              /\ CharsOf(ures.val[k]) \subseteq AlnumClass
        /\ ures.val = RunsFrom(lower(uhyp), 1, "")
        /\ (CharsOf(lower(uhyp)) \cap AlnumClass = {}) => ures.val = <<>>

\* a text with an upper-case letter and punctuation inside, cut in two tokens
C7_Witness ==
    /\ ures.fn = "simple_tokenize"
    /\ uhyp = "Notcan't"
    /\ ures.val = <<"notcan", "t">>

\* the entries of the vocabulary without an apostrophe
PlainNegationWords ==
    {"not", "no", "never", "none", "nobody", "nothing", "nowhere",
     "neither", "nor", "cant", "dont"}

\* C10: has_negation(text) is true exactly when a token of text is in the
\* negation vocabulary; no token equals n't, can't or don't, so the answer is
\* decided by the eleven entries without an apostrophe.
C10_NegationByPlainWords ==
    ures.fn = "has_negation" =>
        LET toks == simple_tokenize(uhyp)
        IN  /\ ures.val = (\E i \in 1..Len(toks) : toks[i] \in NEGATION_WORDS)
            /\ \A i \in 1..Len(toks) : toks[i] \notin {"n't", "can't", "don't"}
            /\ ures.val = (\E i \in 1..Len(toks) : toks[i] \in PlainNegationWords)

\* a text that spells a vocabulary entry with an apostrophe, and is not negated
C10_Witness ==
    /\ ures.fn = "has_negation"
    /\ uhyp = "can't"
    /\ ures.val = FALSE

\* the label of a row given by its position
LabelAt(p) == dataset[p].label

\* the value of member key of an output line (json.loads of the line)
Member(line, key) == line[CHOOSE k \in 1..Len(line) : line[k][1] = key][2]

Keys(line) == {line[k][1] : k \in 1..Len(line)}

\* a line this program writes
IsOutputLine(line) ==
    /\ Len(line) = 3
    /\ Keys(line) = {"premise", "hypothesis", "label"}

\* number of rows of a list of positions that carry label l
CountLabel(ps, l) == Cardinality({k \in 1..Len(ps) : LabelAt(ps[k]) = l})

CountLines(f, l) == Cardinality({k \in 1..Len(f) : Member(f[k], "label") = l})

\* positions of the labelled rows with label l that is_hard_example accepts
Accepted(l) ==
    {p \in 1..Len(dataset) : LabelAt(p) = l /\ is_hard_example(dataset[p])}

NoRepeat(ps) == \A j, k \in 1..Len(ps) : ps[j] = ps[k] => j = k

\* C2 (as stated): when the run is complete, the selection and the written
\* file hold at most max_per_label rows of each label.
C2_AtMostMaxPerLabel ==
    pc = "done" =>
        \A l \in 0..2 :
            /\ CountLabel(selected, l) <= max_per_label
            /\ CountLines(file, l) <= max_per_label

\* C3: no row with label -1 is left in the split when is_hard_example is
\* first called, none is ever passed to it, and none is in a label group, in
\* the selection or in a written line.
C3_UnlabeledNeverKept ==
    /\ evaluated # {} => \A k \in 1..Len(train) : LabelAt(train[k]) # -1
    /\ \A p \in evaluated : LabelAt(p) # -1
    /\ \A l \in DOMAIN by_label :
          \A k \in 1..Len(by_label[l]) : LabelAt(by_label[l][k]) # -1
    /\ \A k \in 1..Len(selected) : LabelAt(selected[k]) # -1
    /\ opened => \A k \in 1..Len(file) : Member(file[k], "label") # -1

\* a complete run over a dataset holding an unlabeled row that passes the
\* three heuristics, with something written
C3_Witness ==
    /\ pc = "done"
    /\ file # <<>>
    /\ \E p \in 1..Len(dataset) : LabelAt(p) = -1 /\ is_hard_example(dataset[p])

\* C4: when the write loop is complete the file holds one line per row of the
\* selection, in the order of the selection, each an object of exactly the
\* keys premise, hypothesis and label, with the texts and the label (0, 1 or
\* 2) of its row, and nothing else.
C4_FileIsSelection ==
    pc = "done" =>
        /\ Len(file) = Len(selected)
        /\ \A k \in 1..Len(file) :
              /\ IsOutputLine(file[k])
              /\ Member(file[k], "label") \in {0, 1, 2}
              /\ Member(file[k], "label") = dataset[selected[k]].label
              /\ Member(file[k], "premise") = dataset[selected[k]].premise
              /\ Member(file[k], "hypothesis") = dataset[selected[k]].hypothesis

\* a complete run that wrote rows of two labels
C4_Witness ==
    /\ pc = "done"
    /\ Len(file) >= 2
    /\ \E j, k \in 1..Len(file) : Member(file[j], "label") # Member(file[k], "label")

C8_WriteOnlyAfterSelection ==
    [][/\ (opened' /\ ~opened) =>
              /\ pc = "open"
              /\ idx = Len(train)
              /\ collected # <<>>
              /\ lab \notin DOMAIN by_label
              /\ selected' = selected
       /\ ~opened' => (file' = file /\ written' = 0)
       /\ (pc' = "failed" /\ pc # "write") => ~opened']_vars

\* a run that failed with its selection computed and the path never opened
C8_Witness ==
    /\ pc = "failed"
    /\ ~opened
    /\ selected # <<>>
    /\ file = <<StaleLine>>

\* C9: with max_per_label at least 0, the rows selected and written with
\* label l number min(max_per_label, accepted labelled rows of label l); each
\* is an accepted row; each group holds accepted rows of its own label; no
\* position occurs twice in the groups or in the selection.
C9_CountIsMinOfCapAndAccepted ==
    (max_per_label >= 0 /\ pc = "done") =>
        LET acc == [l \in -1..2 |-> Accepted(l)]
        IN  /\ \A l \in 0..2 :
                  /\ CountLabel(selected, l) = Min(max_per_label, Cardinality(acc[l]))
                  /\ CountLines(file, l) = Min(max_per_label, Cardinality(acc[l]))
                  /\ \A k \in 1..Len(by_label[l]) : by_label[l][k] \in acc[l]
                  /\ Cardinality(acc[l]) = Len(by_label[l])
                  /\ NoRepeat(by_label[l])
            /\ \A k \in 1..Len(selected) :
                  /\ LabelAt(selected[k]) \in 0..2
                  /\ selected[k] \in acc[LabelAt(selected[k])]
            /\ NoRepeat(selected)

\* a complete run in which one group was cut and another was kept whole
C9_Witness ==
    /\ pc = "done"
    /\ max_per_label = 1
    /\ Cardinality(Accepted(0)) = 2
    /\ Cardinality(Accepted(1)) = 1
    /\ Len(file) = 2

====
